---------------------------- MODULE Spec2Model ----------------------------
(***************************************************************************)
(* Explicit Runge-Kutta stepping of netket.experimental.ode4jax:           *)
(* the Butcher tableaus of ODEBase/tableau.py, their derived properties,   *)
(* the stage evaluation and the two step routines, and the construction    *)
(* of an ODEProblem (ODEBase/problem.py).                                  *)
(*                                                                         *)
(* Numbers are exact fractions <<numerator, denominator>> in lowest terms  *)
(* with a positive denominator.  An array is a record [ndim, v]: v is a    *)
(* fraction (ndim = 0), a sequence of fractions (ndim = 1) or a sequence   *)
(* of rows (ndim = 2).                                                     *)
(***************************************************************************)
EXTENDS Integers, Sequences, FiniteSets, TLC

VARIABLES
    phase,      \* "start" | "ready" (a Problem exists) | "running" (an integrator exists)
    problem,    \* the ODEProblem built last (NoProblem before the first one)
    integ,      \* the integrator state: tableau, f, t, dt, u, k
    op,         \* the call made last: its name and arguments
    exc,        \* the exception that call raised, "none" when it returned
    ret,        \* the value that call returned
    calls       \* the right-hand-side evaluations that call made, in order

vars == <<phase, problem, integ, op, exc, ret, calls>>

----------------------------------------------------------------------------
(* Bounds of the model                                                     *)

\* longest tspan handed to ODEProblem
MaxTspanLen == 3
\* longest initial state vector
MaxDim == 2

----------------------------------------------------------------------------
(* Exact fractions                                                         *)

Abs(n) == IF n < 0 THEN -n ELSE n

RECURSIVE GCD(_, _)
GCD(a, b) == IF b = 0 THEN a ELSE GCD(b, a % b)

Norm(n, d) ==
    LET g == GCD(Abs(n), d) IN <<n \div g, d \div g>>

R(n, d) == Norm(n, d)

Zero == <<0, 1>>
One == <<1, 1>>

RAdd(p, q) ==
    LET g == GCD(p[2], q[2])
        l == (p[2] \div g) * q[2]
    IN  Norm(p[1] * (l \div p[2]) + q[1] * (l \div q[2]), l)

RNeg(p) == <<-p[1], p[2]>>

RSub(p, q) == RAdd(p, RNeg(q))

RMul(p, q) ==
    LET g1 == GCD(Abs(p[1]), q[2])
        g2 == GCD(Abs(q[1]), p[2])
    IN  Norm((p[1] \div g1) * (q[1] \div g2), (p[2] \div g2) * (q[2] \div g1))

RECURSIVE RSum(_)
RSum(s) == IF s = <<>> THEN Zero ELSE RAdd(RSum(SubSeq(s, 1, Len(s) - 1)), s[Len(s)])

----------------------------------------------------------------------------
(* Arrays                                                                  *)

Scalar(x) == [ndim |-> 0, v |-> x]
Vec(s) == [ndim |-> 1, v |-> s]
Mat(rows) == [ndim |-> 2, v |-> rows]

\* a sequence given by its elements, held as a tuple of values
Tuple(f) == f \o <<>>

\* elementwise operations on sequences of fractions
VAdd(x, y) == Tuple([i \in 1..Len(x) |-> RAdd(x[i], y[i])])
VSub(x, y) == Tuple([i \in 1..Len(x) |-> RSub(x[i], y[i])])
VScale(c, x) == Tuple([i \in 1..Len(x) |-> RMul(c, x[i])])
VNeg(x) == Tuple([i \in 1..Len(x) |-> RNeg(x[i])])
VFill(c, n) == Tuple([i \in 1..n |-> c])

\* w @ k for a weight vector w and stage derivatives k (one row per stage)
Dot(w, k, n) ==
    Tuple([i \in 1..n |-> RSum(Tuple([j \in 1..Len(w) |-> RMul(w[j], k[j][i])]))])

\* k.at[idx].get(): negative indices count from the end, and an index that is
\* still out of range is clamped to the nearest row (the default gather mode).
at_get(rows, idx) ==
    LET n == Len(rows)
        wrap(i) == IF i < 0 THEN i + n ELSE i
        clip(i) == IF i < 0 THEN 0 ELSE IF i > n - 1 THEN n - 1 ELSE i
    IN  Tuple([p \in 1..Len(idx) |-> rows[clip(wrap(idx[p])) + 1]])

\* jnp.tril: the entries above the diagonal become zero
tril(rows) ==
    Tuple([i \in 1..Len(rows) |->
        Tuple([j \in 1..Len(rows[i]) |-> IF j > i THEN Zero ELSE rows[i][j]])])

RAbs(p) == <<Abs(p[1]), p[2]>>
RLeq(p, q) == p[1] * q[2] <= q[1] * p[2]

\* jnp.allclose with its default tolerances: |x - y| <= atol + rtol * |y|
rtol == R(1, 100000)
atol == R(1, 100000000)
allclose(x, y) ==
    \A i \in 1..Len(x) : \A j \in 1..Len(x[i]) :
        \/ x[i][j] = y[i][j]
        \/ RLeq(RAbs(RSub(x[i][j], y[i][j])), RAdd(atol, RMul(rtol, RAbs(y[i][j]))))

----------------------------------------------------------------------------
(* The registered tableaus                                                 *)

None == "None"

bt_feuler ==
    [name |-> "feuler",
     order |-> <<1>>,
     a |-> Mat(<<VFill(Zero, 1)>>),
     b |-> Mat(<<VFill(One, 1)>>),
     c |-> Vec(VFill(Zero, 1)),
     c_error |-> None]

bt_midpoint ==
    [name |-> "midpoint",
     order |-> <<2>>,
     a |-> Mat(<<
        <<R(0, 1), R(0, 1)>>,
        <<R(1, 2), R(0, 1)>>>>),
     b |-> Vec(<<R(0, 1), R(1, 1)>>),
     c |-> Vec(<<R(0, 1), R(1, 2)>>),
     c_error |-> None]

bt_heun_quarter ==
    [name |-> "heun",
     order |-> <<2>>,
     a |-> Mat(<<
        <<R(0, 1), R(0, 1)>>,
        <<R(1, 1), R(0, 1)>>>>),
     b |-> Vec(<<R(1, 2), R(1, 4)>>),
     c |-> Vec(<<R(0, 1), R(1, 1)>>),
     c_error |-> None]

bt_heun ==
    [name |-> "heun",
     order |-> <<2>>,
     a |-> Mat(<<
        <<R(0, 1), R(0, 1)>>,
        <<R(1, 1), R(0, 1)>>>>),
     b |-> Vec(<<R(1, 2), R(1, 2)>>),
     c |-> Vec(<<R(0, 1), R(1, 1)>>),
     c_error |-> None]

bt_rk4 ==
    [name |-> "rk4",
     order |-> <<4>>,
     a |-> Mat(<<
        <<R(0, 1), R(0, 1), R(0, 1), R(0, 1)>>,
        <<R(1, 2), R(0, 1), R(0, 1), R(0, 1)>>,
        <<R(0, 1), R(1, 2), R(0, 1), R(0, 1)>>,
        <<R(0, 1), R(0, 1), R(1, 1), R(1, 1)>>>>),
     b |-> Vec(<<R(1, 6), R(1, 3), R(1, 3), R(1, 6)>>),
     c |-> Vec(<<R(0, 1), R(1, 2), R(1, 2), R(1, 1)>>),
     c_error |-> None]

bt_rk12 ==
    [name |-> "rk21",
     order |-> <<2, 1>>,
     a |-> Mat(<<
        <<R(0, 1), R(0, 1)>>,
        <<R(1, 1), R(0, 1)>>>>),
     b |-> Mat(<<
        <<R(1, 2), R(1, 2)>>,
        <<R(1, 1), R(0, 1)>>>>),
     c |-> Vec(<<R(0, 1), R(1, 1)>>),
     c_error |-> None]

bt_rk23 ==
    [name |-> "rk23",
     order |-> <<2, 3>>,
     a |-> Mat(<<
        <<R(0, 1), R(0, 1), R(0, 1), R(0, 1)>>,
        <<R(1, 2), R(0, 1), R(0, 1), R(0, 1)>>,
        <<R(0, 1), R(3, 4), R(0, 1), R(0, 1)>>,
        <<R(2, 9), R(1, 3), R(4, 9), R(0, 1)>>>>),
     b |-> Mat(<<
        <<R(7, 24), R(1, 4), R(1, 3), R(1, 8)>>,
        <<R(2, 9), R(1, 3), R(4, 9), R(0, 1)>>>>),
     c |-> Vec(<<R(0, 1), R(1, 2), R(3, 4), R(1, 1)>>),
     c_error |-> None]

bt_rk4_fehlberg ==
    [name |-> "fehlberg",
     order |-> <<4, 5>>,
     a |-> Mat(<<
        <<R(0, 1), R(0, 1), R(0, 1), R(0, 1), R(0, 1), R(0, 1)>>,
        <<R(1, 4), R(0, 1), R(0, 1), R(0, 1), R(0, 1), R(0, 1)>>,
        <<R(3, 32), R(9, 32), R(0, 1), R(0, 1), R(0, 1), R(0, 1)>>,
        <<R(1932, 2197), R(-7200, 2197), R(7296, 2197), R(0, 1), R(0, 1), R(0, 1)>>,
        <<R(439, 216), R(-8, 1), R(3680, 513), R(-845, 4104), R(0, 1), R(0, 1)>>,
        <<R(-8, 27), R(2, 1), R(-3544, 2565), R(1859, 4104), R(11, 40), R(0, 1)>>>>),
     b |-> Mat(<<
        <<R(25, 216), R(0, 1), R(1408, 2565), R(2197, 4104), R(-1, 5), R(0, 1)>>,
        <<R(16, 135), R(0, 1), R(6656, 12825), R(28561, 56430), R(-9, 50), R(2, 55)>>>>),
     c |-> Vec(<<R(0, 1), R(1, 4), R(3, 8), R(12, 13), R(1, 1), R(1, 2)>>),
     c_error |-> None]

bt_rk4_dopri ==
    [name |-> "dopri",
     order |-> <<5, 4>>,
     a |-> Mat(<<
        <<R(0, 1), R(0, 1), R(0, 1), R(0, 1), R(0, 1), R(0, 1), R(0, 1)>>,
        <<R(1, 5), R(0, 1), R(0, 1), R(0, 1), R(0, 1), R(0, 1), R(0, 1)>>,
        <<R(3, 40), R(9, 40), R(0, 1), R(0, 1), R(0, 1), R(0, 1), R(0, 1)>>,
        <<R(44, 45), R(-56, 15), R(32, 9), R(0, 1), R(0, 1), R(0, 1), R(0, 1)>>,
        <<R(19372, 6561), R(-25360, 2187), R(64448, 6561), R(-212, 729), R(0, 1), R(0, 1), R(0, 1)>>,
        <<R(9017, 3168), R(-355, 33), R(46732, 5247), R(49, 176), R(-5103, 18656), R(0, 1), R(0, 1)>>,
        <<R(35, 384), R(0, 1), R(500, 1113), R(125, 192), R(-2187, 6784), R(11, 84), R(0, 1)>>>>),
     b |-> Mat(<<
        <<R(35, 384), R(0, 1), R(500, 1113), R(125, 192), R(-2187, 6784), R(11, 84), R(0, 1)>>,
        <<R(5179, 57600), R(0, 1), R(7571, 16695), R(393, 640), R(-92097, 339200), R(187, 2100), R(1, 40)>>>>),
     c |-> Vec(<<R(0, 1), R(1, 5), R(3, 10), R(4, 5), R(8, 9), R(1, 1), R(1, 1)>>),
     c_error |-> None]


Registry ==
    {bt_feuler, bt_midpoint, bt_heun, bt_rk4,
     bt_rk12, bt_rk23, bt_rk4_fehlberg, bt_rk4_dopri}

TableauNames == {T.name : T \in Registry}
ByName(n) == CHOOSE T \in Registry : T.name = n

----------------------------------------------------------------------------
(* Derived properties of a tableau                                         *)

\* what a call hands back: its exception ("none" when it returned) and value
Returned(kind, val) == [exc |-> "none", ret |-> [kind |-> kind, val |-> val], calls |-> <<>>]
Raised(e, log) == [exc |-> e, ret |-> [kind |-> "nothing", val |-> <<>>], calls |-> log]

\* the comparison is evaluated and dropped: the property has no return
\* statement, so every call yields None
is_explicit(T) ==
    LET lower == allclose(T.a.v, tril(T.a.v))
    IN  Returned("None", <<>>)

is_adaptive_ndim1(T) == T.b.ndim >= 1
is_adaptive(T) == T.b.ndim = 2

\* self.b[0, :] takes two indices: an IndexError on a one-dimensional b
is_FSAL(T) ==
    IF T.b.ndim < 2
    THEN Raised("IndexError", <<>>)
    ELSE LET s == Len(T.c.v)
             rows_equal == \A j \in 1..s : T.a.v[s][j] = T.b.v[1][j]
         IN  IF ~rows_equal
             THEN Returned("bool", FALSE)
             ELSE Returned("bool", T.c.v[s] = One)

stages(T) == Len(T.c.v)

----------------------------------------------------------------------------
(* Right-hand sides f(t, u, stage) used to drive the stepping              *)

RhsNames == {"decay", "stage", "clock"}

\* decay: du/dt = -u;  stage: the derivative is stage + 1 in every component;
\* clock: the derivative is the evaluation time in every component
Rhs(fn, t, u, stage) ==
    CASE fn = "decay" -> VNeg(u)
      [] fn = "stage" -> VFill(<<stage + 1, 1>>, Len(u))
      [] fn = "clock" -> VFill(t, Len(u))

----------------------------------------------------------------------------
(* Stage evaluation and the step routines                                  *)

\* a fresh array with one zero row of y_t's shape per stage
expand_dim(y_t, sz) == Tuple([l \in 1..sz |-> VFill(Zero, Len(y_t))])

\* the arguments of the right-hand-side call of stage l (l = 1 is stage 0)
stage_call(T, t, dt, y_t, k, l) ==
    [t |-> RAdd(t, RMul(T.c.v[l], dt)),
     y |-> VAdd(y_t, VScale(dt, Dot(T.a.v[l], k, Len(y_t)))),
     stage |-> l - 1]

\* the loop with the result of k.at[l].set(k_l) dropped
RECURSIVE get_ks_loop_no_set(_, _, _, _, _, _, _, _)
get_ks_loop_no_set(T, f, t, dt, y_t, l, k, log) ==
    IF l > stages(T)
    THEN [k |-> k, calls |-> log]
    ELSE LET call == stage_call(T, t, dt, y_t, k, l)
         IN  get_ks_loop_no_set(T, f, t, dt, y_t, l + 1, k, Append(log, call))

RECURSIVE get_ks_loop(_, _, _, _, _, _, _, _)
get_ks_loop(T, f, t, dt, y_t, l, k, log) ==
    IF l > stages(T)
    THEN [k |-> k, calls |-> log]
    ELSE LET call == stage_call(T, t, dt, y_t, k, l)
             k_l == Rhs(f, call.t, call.y, call.stage)
         IN  get_ks_loop(T, f, t, dt, y_t, l + 1,
                         [k EXCEPT ![l] = k_l], Append(log, call))

get_ks(T, f, t, dt, y_t) ==
    get_ks_loop(T, f, t, dt, y_t, 1, expand_dim(y_t, stages(T)), <<>>)

\* the rows integrator.k keeps: k.at[jnp.array([1, -1])].get()
cached_rows(k) == at_get(k, <<1, -1>>)

\* step: the new state, the new integrator.k and the calls made
step_minus(T, g) ==
    LET ks == get_ks(T, g.f, g.t, g.dt, g.u.v)
        b == IF T.b.ndim = 2 THEN T.b.v[1] ELSE T.b.v
        y_tp1 == VSub(g.u.v, Dot(VScale(g.dt, b), ks.k, Len(g.u.v)))
    IN  [exc |-> "none",
         ret |-> [kind |-> "array", val |-> Vec(y_tp1)],
         calls |-> ks.calls,
         k |-> Mat(cached_rows(ks.k))]

step(T, g) ==
    LET ks == get_ks(T, g.f, g.t, g.dt, g.u.v)
        b == IF T.b.ndim = 2 THEN T.b.v[1] ELSE T.b.v
        y_tp1 == VAdd(g.u.v, Dot(VScale(g.dt, b), ks.k, Len(g.u.v)))
    IN  [exc |-> "none",
         ret |-> [kind |-> "array", val |-> Vec(y_tp1)],
         calls |-> ks.calls,
         k |-> Mat(cached_rows(ks.k))]

\* step_with_error: a non-adaptive tableau raises RuntimeError at once; an
\* adaptive one evaluates the stages and then reads the name b, which is
\* bound nowhere (not a local, a global or a builtin): NameError, before
\* integrator.k is assigned
step_with_error(T, g) ==
    IF ~is_adaptive(T)
    THEN Raised("RuntimeError", <<>>) @@ [k |-> g.k]
    ELSE LET ks == get_ks(T, g.f, g.t, g.dt, g.u.v)
         IN  Raised("NameError", ks.calls) @@ [k |-> g.k]

----------------------------------------------------------------------------
(* ODEProblem                                                              *)

\* jnp.asarray of a Python number (zero-dimensional) or of a list
PyNumber(x) == [py |-> "number", v |-> x]
PyList(s) == [py |-> "list", v |-> s]
asarray(obj) == IF obj.py = "number" THEN Scalar(obj.v) ELSE Vec(obj.v)

\* u0.reshape(1) of a zero-dimensional array
reshape1(arr) == Vec(<<arr.v>>)

pre_init_short(fun, tspan, u0) ==
    IF Len(tspan) < 2
    THEN Raised("ValueError", <<>>)
    ELSE LET span == <<asarray(PyNumber(tspan[1])), asarray(PyNumber(tspan[2]))>>
             arr == asarray(u0)
             u == IF arr.ndim = 0 THEN reshape1(arr) ELSE arr
         IN  Returned("problem", [f |-> fun, tspan |-> span, u0 |-> u])

pre_init(fun, tspan, u0) ==
    IF Len(tspan) # 2
    THEN Raised("ValueError", <<>>)
    ELSE LET span == <<asarray(PyNumber(tspan[1])), asarray(PyNumber(tspan[2]))>>
             arr == asarray(u0)
             u == IF arr.ndim = 0 THEN reshape1(arr) ELSE arr
         IN  Returned("problem", [f |-> fun, tspan |-> span, u0 |-> u])

----------------------------------------------------------------------------
(* Inputs                                                                  *)

TimeValues == {Zero, One}
StateValues == {One, <<2, 1>>}

RECURSIVE SeqsUpTo(_, _)
SeqsUpTo(S, n) ==
    IF n = 0 THEN {<<>>}
    ELSE LET shorter == SeqsUpTo(S, n - 1)
         IN  shorter \cup {Append(s, x) : s \in {q \in shorter : Len(q) = n - 1}, x \in S}

TspanInputs == SeqsUpTo(TimeValues, MaxTspanLen)

\* an initial state is handed over as a bare number or as a list of numbers
U0Numbers == StateValues
U0Lists == SeqsUpTo(StateValues, MaxDim) \ {<<>>}

\* The step sizes an integrator is built with.  The exact fractions of a
\* seven-stage decay step of size 1/10 do not fit TLC's 32-bit integers, so
\* that one combination runs at 1/2 only.
StepSizes(T, fn) ==
    IF fn = "decay" /\ T.name = "dopri"
    THEN {R(1, 2)}
    ELSE {R(1, 10), R(1, 2)}

----------------------------------------------------------------------------
(* The state machine                                                       *)

NoValue == [kind |-> "nothing", val |-> <<>>]
NoProblem == [f |-> "", tspan |-> <<>>, u0 |-> Vec(<<>>)]
NoIntegrator ==
    [tableau |-> "", f |-> "", t |-> Zero, dt |-> Zero, u |-> Vec(<<>>), k |-> Mat(<<>>)]

Call(name, tableau, tspan) == [name |-> name, tableau |-> tableau, tspan |-> tspan]

Init ==
    /\ phase = "start"
    /\ problem = NoProblem
    /\ integ = NoIntegrator
    /\ op = Call("none", "", <<>>)
    /\ exc = "none"
    /\ ret = NoValue
    /\ calls = <<>>

\* ODEProblem(fun, tspan, u0): the object exists only when __pre_init__ returns.
\* One problem is built per run; a failed construction may be tried again.
NewODEProblem(fun, tspan, u0) ==
    /\ phase = "start"
    /\ LET r == pre_init(fun, tspan, u0)
       IN  /\ op' = Call("ODEProblem", "", tspan)
           /\ exc' = r.exc
           /\ ret' = r.ret
           /\ calls' = r.calls
           /\ IF r.exc = "none"
              THEN problem' = r.ret.val /\ phase' = "ready"
              ELSE UNCHANGED <<problem, phase>>
    /\ UNCHANGED integ

\* the driver builds the integrator state from the problem: t = t0, u = u0
NewIntegrator(T, dt) ==
    /\ phase = "ready"
    /\ dt \in StepSizes(T, problem.f)
    /\ phase' = "running"
    /\ integ' = [tableau |-> T.name, f |-> problem.f, t |-> problem.tspan[1].v,
                 dt |-> dt, u |-> problem.u0, k |-> Mat(<<>>)]
    /\ op' = Call("integrator", T.name, <<>>)
    /\ exc' = "none"
    /\ ret' = NoValue
    /\ calls' = <<>>
    /\ UNCHANGED problem

Step ==
    /\ phase = "running"
    /\ LET r == step(ByName(integ.tableau), integ)
       IN  /\ integ' = [integ EXCEPT !.k = r.k]
           /\ op' = Call("step", integ.tableau, <<>>)
           /\ exc' = r.exc
           /\ ret' = r.ret
           /\ calls' = r.calls
    /\ UNCHANGED <<phase, problem>>

StepWithError ==
    /\ phase = "running"
    /\ LET r == step_with_error(ByName(integ.tableau), integ)
       IN  /\ integ' = [integ EXCEPT !.k = r.k]
           /\ op' = Call("step_with_error", integ.tableau, <<>>)
           /\ exc' = r.exc
           /\ ret' = r.ret
           /\ calls' = r.calls
    /\ UNCHANGED <<phase, problem>>

\* the properties of the registered tableaus are read while a tableau is
\* being selected, before the integrator is built
Property(name, T, r) ==
    /\ phase # "running"
    /\ op' = Call(name, T.name, <<>>)
    /\ exc' = r.exc
    /\ ret' = r.ret
    /\ calls' = r.calls
    /\ UNCHANGED <<phase, problem, integ>>

GetIsExplicit(T) == Property("is_explicit", T, is_explicit(T))
GetIsAdaptive(T) == Property("is_adaptive", T, Returned("bool", is_adaptive(T)))
GetIsFSAL(T) == Property("is_FSAL", T, is_FSAL(T))
GetStages(T) == Property("stages", T, Returned("int", stages(T)))

Next ==
    \/ \E fun \in RhsNames, tspan \in TspanInputs, x \in U0Numbers :
           NewODEProblem(fun, tspan, PyNumber(x))
    \/ \E fun \in RhsNames, tspan \in TspanInputs, s \in U0Lists :
           NewODEProblem(fun, tspan, PyList(s))
    \/ \E T \in Registry, dt \in {R(1, 10), R(1, 2)} : NewIntegrator(T, dt)
    \/ Step
    \/ StepWithError
    \/ \E T \in Registry : GetIsExplicit(T)
    \/ \E T \in Registry : GetIsAdaptive(T)
    \/ \E T \in Registry : GetIsFSAL(T)
    \/ \E T \in Registry : GetStages(T)

Spec == Init /\ [][Next]_vars

----------------------------------------------------------------------------
(* Properties                                                              *)

\* the tableau the last call was made on
Tab == ByName(op.tableau)

\* the weight rows of b: both rows of a two-row b, else the single vector
WeightRows(T) == IF T.b.ndim = 2 THEN T.b.v ELSE <<T.b.v>>
Primary(T) == WeightRows(T)[1]

AdaptiveNames == {"rk21", "rk23", "fehlberg", "dopri"}
FixedStepNames == {"feuler", "midpoint", "heun", "rk4"}

\* the derivative the right-hand side returned for a logged call
Derivative(call) == Rhs(integ.f, call.t, call.y, call.stage)

\* the last call evaluated the stages
StagesEvaluated ==
    \/ op.name = "step"
    \/ op.name = "step_with_error" /\ Tab.b.ndim = 2

\* C1: on each of the four adaptive tableaus step_with_error returns, without
\* raising, the pair (u + dt * (b[0] . k), dt * ((b[0] - b[1]) . k)) for the
\* stage derivatives k of that step.
C1_StepWithErrorReturnsPair ==
    (op.name = "step_with_error" /\ op.tableau \in AdaptiveNames) =>
        /\ exc = "none"
        /\ ret.kind = "pair"
        /\ LET T == Tab
               n == Len(integ.u.v)
               k == get_ks(T, integ.f, integ.t, integ.dt, integ.u.v).k
               y_new == VAdd(integ.u.v, VScale(integ.dt, Dot(T.b.v[1], k, n)))
               y_err == VScale(integ.dt, Dot(VSub(T.b.v[1], T.b.v[2]), k, n))
           IN  ret.val = <<Vec(y_new), Vec(y_err)>>

\* C2: step_with_error on bt_rk4 raises RuntimeError, evaluates the
\* right-hand side not once, and leaves t, dt, u and k of the integrator as
\* they were before the call.
C2_NonAdaptiveRaisesUntouched ==
    [][(op'.name = "step_with_error" /\ op'.tableau = "rk4") =>
          /\ exc' = "RuntimeError"
          /\ calls' = <<>>
          /\ integ' = integ]_vars

C2_Witness ==
    /\ op.name = "step_with_error"
    /\ op.tableau = "rk4"
    /\ exc = "RuntimeError"
    /\ Len(integ.k.v) = 2

\* C3: is_explicit is true for every registered tableau, and true exactly
\* when a is strictly lower triangular (a[i][j] = 0 for every j >= i).
StrictlyLower(rows) ==
    \A i \in 1..Len(rows) : \A j \in i..Len(rows[i]) : rows[i][j] = Zero

C3_IsExplicitTrue ==
    op.name = "is_explicit" =>
        /\ exc = "none"
        /\ ret.kind = "bool"
        /\ ret.val = TRUE
        /\ (ret.val <=> StrictlyLower(Tab.a.v))

\* C4: is_adaptive is true exactly for the tableaus whose b holds two weight
\* rows: false for feuler, midpoint, heun and rk4, true for the four pairs.
C4_IsAdaptiveIffTwoRows ==
    op.name = "is_adaptive" =>
        /\ ret.kind = "bool"
        /\ (ret.val <=> Len(WeightRows(Tab)) = 2)
        /\ (op.tableau \in FixedStepNames => ret.val = FALSE)
        /\ (op.tableau \in AdaptiveNames => ret.val = TRUE)

\* C5: is_FSAL returns a boolean for every registered tableau, a single
\* weight vector included: true exactly when the last row of a equals the
\* primary weight row and c[-1] = 1.
C5_IsFSALTotal ==
    op.name = "is_FSAL" =>
        /\ exc = "none"
        /\ ret.kind = "bool"
        /\ LET T == Tab
               s == Len(T.c.v)
           IN  ret.val <=> (T.a.v[s] = Primary(T) /\ T.c.v[s] = One)

\* C6: one step of bt_feuler on du/dt = -u with u = 1 and dt = 1/10 returns
\* exactly 9/10, whatever the starting time.
C6_EulerDecayStep ==
    (/\ op.name = "step"
     /\ op.tableau = "feuler"
     /\ integ.f = "decay"
     /\ integ.u.v = <<One>>
     /\ integ.dt = R(1, 10)) =>
        /\ exc = "none"
        /\ ret.kind = "array"
        /\ ret.val = Vec(<<R(9, 10)>>)

C6_Witness ==
    /\ op.name = "step"
    /\ op.tableau = "feuler"
    /\ integ.f = "decay"
    /\ integ.u.v = <<One>>
    /\ integ.dt = R(1, 10)
    /\ integ.t = One
    /\ ret.kind = "array"
    /\ ret.val.v = <<R(9, 10)>>

\* C7: every weight row of b of every registered tableau sums to exactly 1,
\* and c[0] = 0.
Consistent(T) ==
    /\ \A r \in 1..Len(WeightRows(T)) : RSum(WeightRows(T)[r]) = One
    /\ T.c.v[1] = Zero

C7_WeightsSumToOne ==
    /\ \A T \in Registry : Consistent(T)
    /\ op.tableau \in TableauNames => Consistent(Tab)

C7_Witness ==
    /\ op.name = "step"
    /\ op.tableau = "dopri"
    /\ Len(WeightRows(Tab)) = 2
    /\ RSum(WeightRows(Tab)[2]) = One

\* C8: ODEProblem raises ValueError and produces no object whenever tspan
\* does not have exactly two elements; a problem that was constructed stores
\* a tspan of exactly two elements.
C8_TspanValidated ==
    op.name = "ODEProblem" =>
        /\ Len(op.tspan) # 2 =>
               /\ exc = "ValueError"
               /\ ret.kind = "nothing"
               /\ phase = "start"
               /\ problem = NoProblem
        /\ exc = "none" =>
               /\ ret.kind = "problem"
               /\ Len(ret.val.tspan) = 2
               /\ problem = ret.val
               /\ Len(problem.tspan) = 2

C8_Witness ==
    /\ op.name = "ODEProblem"
    /\ Len(op.tspan) = 3
    /\ exc = "ValueError"
    /\ problem = NoProblem

\* C9: a step evaluates the right-hand side exactly `stages` times, stage
\* 0 first and in increasing order, call l at time t + c[l] * dt with stage
\* index l, on the state u + dt * (sum over the stages j < l of
\* a[l][j] * k_j): the derivatives already returned in this step and nothing else.
EarlierStages(T, l) ==
    Tuple([i \in 1..Len(integ.u.v) |->
        RSum(Tuple([j \in 1..(l - 1) |-> RMul(T.a.v[l][j], Derivative(calls[j])[i])]))])

C9_StagesInOrder ==
    StagesEvaluated =>
        LET T == Tab
        IN  /\ Len(calls) = stages(T)
            /\ \A l \in 1..Len(calls) :
                   /\ calls[l].stage = l - 1
                   /\ calls[l].t = RAdd(integ.t, RMul(T.c.v[l], integ.dt))
                   /\ calls[l].y = VAdd(integ.u.v, VScale(integ.dt, EarlierStages(T, l)))

C9_Witness ==
    /\ op.name = "step"
    /\ op.tableau = "rk4"
    /\ integ.f = "decay"
    /\ Len(calls) = 4
    /\ calls[4].stage = 3
    /\ Tab.a.v[4][4] # Zero

\* C10: after a successful step the cache k of the integrator holds two
\* entries, the derivative of stage 0 and the derivative of the last stage.
C10_CacheFirstAndLast ==
    (op.name \in {"step", "step_with_error"} /\ exc = "none") =>
        /\ Len(integ.k.v) = 2
        /\ integ.k.v[1] = Derivative(calls[1])
        /\ integ.k.v[2] = Derivative(calls[Len(calls)])

============================================================================
